---- MODULE Spec2Model ----
(***************************************************************************)
(* Model of the DirectIO buffered writer (src/directio.go): the aligned    *)
(* buffer allocator, the block size resolution of NewSize, and the         *)
(* Write / flush / Close state machine in front of an O_DIRECT *os.File.   *)
(*                                                                         *)
(* Bytes are modelled as positive integers: the k-th byte ever offered to  *)
(* Write is the number k, so that loss, duplication and reordering are     *)
(* visible in the file.  0 is the zero byte of a fresh buffer.             *)
(* Sequences are 1-based: Go's b[i:j] is SubSeq(b, i+1, j).                *)
(***************************************************************************)
EXTENDS Integers, Sequences, FiniteSets, TLC

\* ---------------------------------------------------------------- bounds
MaxTotal  == 7   \* bytes offered to Write over the life of a writer
MaxShort  == 1   \* a failing write reports 0..MaxShort bytes, or all but one
MaxPasses == 3   \* passes of Write's loop followed within one call
MaxIfaceTotal == 4 \* bytes offered to a writer on any Writer
MaxFlushCap == 4 \* capacities tried for flush on its own

\* ------------------------------------------------------------- constants
defaultBufSize == 16384

Min(a, b) == IF a < b THEN a ELSE b

\* Go's b[lo:hi] of a byte slice held as a 1-based sequence.
Slice(b, lo, hi) == SubSeq(b, lo + 1, hi)

RECURSIVE BitAnd(_, _)
\* x & y on non-negative integers.
BitAnd(x, y) ==
    IF x = 0 \/ y = 0 THEN 0
    ELSE (x % 2) * (y % 2) + 2 * BitAnd(x \div 2, y \div 2)

\* len(p) & -d.blockSize for len(p) >= 0, blockSize > 0: in two's complement
\* -m = ^(m-1), so x & -m clears in x exactly the bits set in m-1.
AndNeg(x, m) == x - BitAnd(x, m - 1)

\* align(b, size): addr is the address of b[0], len is len(b).
align(addr, len, size) ==
    IF size <= 0 \/ len = 0 THEN 0 ELSE addr % size

\* A slip in the offset: the misalignment itself instead of its complement.
AllocOffsetBuggy(a1, bs) == a1

\* The offset allocAlignedBuf slices the over-allocation at.
AllocOffset(a1, bs) == IF a1 # 0 THEN bs - a1 ELSE 0

\* allocAlignedBuf(blockSize, n) when make() returned a region at address base.
allocAlignedBuf(bs, size, base) ==
    IF bs <= 0 THEN [err |-> "invalid block size", addr |-> 0, len |-> 0]
    ELSE IF size <= 0 THEN [err |-> "size must be greater than zero", addr |-> 0, len |-> 0]
    ELSE LET a1     == align(base, size + bs, bs)
             offset == AllocOffset(a1, bs)
             addr   == base + offset
             len    == (offset + size) - offset
             a2     == align(addr, len, bs)
         IN  IF a1 = 0 THEN [err |-> "nil", addr |-> addr, len |-> len]
             ELSE IF a2 # 0 THEN [err |-> "can't allocate aligned buffer", addr |-> 0, len |-> 0]
             ELSE [err |-> "nil", addr |-> addr, len |-> len]

\* ------------------------------------------------------ block size choice
\* DIOMemAlign(path): statx outcome st = [err, mask, memAlign].
DIOMemAlign(st) ==
    IF st.err \in {"ENOSYS", "EOPNOTSUPP"} THEN [align |-> 0, err |-> "ErrFSNoDIOSupport"]
    ELSE IF st.err # "nil" THEN [align |-> 0, err |-> st.err]
    ELSE IF ~st.mask THEN [align |-> 0, err |-> "ErrFSNoDIOSupport"]
    ELSE IF st.memAlign = 0 THEN [align |-> 0, err |-> "ErrFSNoDIOSupport"]
    ELSE [align |-> st.memAlign, err |-> "nil"]

\* A slip in the clamp: the upgrade of 512..4095 to 4096 is left out.
GetBestAlignmentNoUpgrade(sf) ==
    IF sf.err # "nil" THEN 4096
    ELSE IF sf.bsize < 512 THEN 4096
    ELSE sf.bsize

\* GetBestAlignment(path): statfs outcome sf = [err, bsize].
GetBestAlignment(sf) ==
    IF sf.err # "nil" THEN 4096
    ELSE IF sf.bsize < 512 THEN 4096
    ELSE IF sf.bsize < 4096 THEN 4096
    ELSE sf.bsize

\* The buffer size NewSize asks the allocator for.
NewSizeCapacity(size, bs) ==
    LET s1 == IF size <= 0 THEN defaultBufSize ELSE size
        s2 == IF s1 < defaultBufSize THEN defaultBufSize ELSE s1
        rem == s2 % bs
    IN  IF rem # 0 THEN s2 + (bs - rem) ELSE s2

\* checkDirectIO(fd): nil when the descriptor was opened with O_DIRECT.
checkDirectIO(isDirect) == IF isDirect THEN "nil" ELSE "EINVAL"

\* NewSize(f, size) for a descriptor with O_DIRECT set or not (isDirect), the
\* statfs outcome sf and make() returning address a: the error, or the block
\* size, capacity and buffer address of the writer.  The statx outcome st is
\* within the program's reach (DIOMemAlign) but NewSize never asks for it.
NewSize(isDirect, st, sf, size, a) ==
    LET none == [err |-> "nil", blockSize |-> 0, capacity |-> 0, bufAddr |-> 0]
        bs   == GetBestAlignment(sf)
        cap  == NewSizeCapacity(size, bs)
        r    == allocAlignedBuf(bs, cap, a)
    IN  IF checkDirectIO(isDirect) # "nil"
        THEN [none EXCEPT !.err = checkDirectIO(isDirect)]
        ELSE IF r.err # "nil" THEN [none EXCEPT !.err = r.err]
        ELSE [err |-> "nil", blockSize |-> bs, capacity |-> r.len, bufAddr |-> r.addr]

\* -------------------------------------------------------------- the file
\* (*os.File).Write(b) with len(b) = len: the counts and errors it can
\* return.  It returns a non-nil error whenever n # len(b).
FileWrite(len) ==
    {[n |-> len, err |-> "nil"]} \cup
    {[n |-> k, err |-> "EIO"] : k \in {j \in 0 .. len - 1 : j <= MaxShort \/ j = len - 1}}

\* What the signature Write(b) (n int, err error) alone allows for len(b) = len:
\* any count up to len, with or without an error.
AllWrites(len) == {[n |-> k, err |-> e] : k \in 0 .. len, e \in {"nil", "EIO"}}
AnyWrite(len) == {r \in AllWrites(len) : r.n <= MaxShort \/ r.n >= len - 1}

\* d.f.Write(b) for the descriptor desc the writer was built on.
DescWrite(desc, len) == IF desc = "os.File" THEN FileWrite(len) ELSE AnyWrite(len)

\* setDirectIO(fd, enabled): the O_DIRECT flag after the call.
setDirectIO(cur, enabled, ok) == IF ok THEN enabled ELSE cur

\* One entry of the log of descriptor operations.
OpWrite(len, r, direct, src, aligned) ==
    [op |-> "write", len |-> len, n |-> r.n, direct |-> direct, src |-> src,
     aligned |-> aligned, ok |-> (r.err = "nil")]
OpToggle(enabled, ok, direct) ==
    [op |-> IF enabled THEN "enable" ELSE "disable", len |-> 0, n |-> 0,
     direct |-> direct, src |-> "-", aligned |-> TRUE, ok |-> ok]
OpOther(name, direct) ==
    [op |-> name, len |-> 0, n |-> 0, direct |-> direct, src |-> "-",
     aligned |-> TRUE, ok |-> TRUE]

\* ---------------------------------------------------------- buffer moves
\* copy(dst[at:], src): the number of bytes copied and the new dst.
CopyCount(dst, at, src) == Min(Len(dst) - at, Len(src))
CopyInto(dst, at, src) ==
    [i \in 1 .. Len(dst) |->
        IF i > at /\ i <= at + CopyCount(dst, at, src) THEN src[i - at] ELSE dst[i]]

\* d.Available() and d.Buffered()
Available(b, fill) == Len(b) - fill
Buffered(fill) == fill

\* A slip in flush: the unwritten remainder is not moved to the start.
flushNoShift(b, fill, sticky, r) ==
    IF sticky # "nil" THEN [buf |-> b, n |-> fill, err |-> sticky, wrote |-> FALSE, k |-> 0]
    ELSE IF fill = 0 THEN [buf |-> b, n |-> fill, err |-> "nil", wrote |-> FALSE, k |-> 0]
    ELSE LET e  == IF r.n < fill /\ r.err = "nil" THEN "ErrShortWrite" ELSE r.err
         IN  [buf |-> b, n |-> fill - r.n, err |-> e, wrote |-> TRUE, k |-> r.n]

\* flush(): r is what d.f.Write returns if flush gets as far as calling it.
flush(b, fill, sticky, r) ==
    IF sticky # "nil" THEN [buf |-> b, n |-> fill, err |-> sticky, wrote |-> FALSE, k |-> 0]
    ELSE IF fill = 0 THEN [buf |-> b, n |-> fill, err |-> "nil", wrote |-> FALSE, k |-> 0]
    ELSE LET e  == IF r.n < fill /\ r.err = "nil" THEN "ErrShortWrite" ELSE r.err
             b1 == IF e # "nil" /\ r.n > 0 /\ r.n < fill
                   THEN CopyInto(b, 0, Slice(b, r.n, fill)) ELSE b
         IN  [buf |-> b1, n |-> fill - r.n, err |-> e, wrote |-> TRUE, k |-> r.n]

\* A slip in Close: no aligned bulk, the whole buffer is left for the tail.
AlignedSizeNone(fill, bs) == 0

\* alignedSize in Close
AlignedSize(fill, bs) == fill - (fill % bs)

\* The prefix length of the split path of Write.
SplitLen(len, bs) == AndNeg(len, bs)

\* ------------------------------------------------------------------ state
VARIABLES
    buf,        \* d.buf: the aligned buffer, Len(buf) = capacity
    n,          \* d.n: bytes staged in buf[0:n]
    err,        \* d.err: the sticky error, "nil" when unset
    blockSize,  \* d.blockSize
    isClosed,   \* d.isClosed
    base,       \* address make() returned for the over-allocation
    bufAddr,    \* address of buf[0]
    file,       \* bytes the descriptor reported as written, in order
    oDirect,    \* O_DIRECT is set on the descriptor
    cached,     \* bytes written while O_DIRECT was not set
    ops,        \* descriptor operations issued by the current / last call
    pc,         \* "idle", "loop" (inside Write), "noWriter", "new", "built"
    call,       \* the current / last public call: "none", "Write", "Close"
    data,       \* the argument of the current / last Write on the open writer
    dataAddr,   \* its address modulo blockSize
    p,          \* Write's p: the input not yet consumed
    pAddr,      \* address of p[0] modulo blockSize
    nn,         \* Write's nn
    ret,        \* what the last call returned: [n, err]
    sent,       \* bytes offered to Write so far
    failed,     \* some call returned an error
    entry,      \* the writer as the current / last call found it
    cfg         \* construction: the capacity asked for, NewSize's inputs and result

vars == <<buf, n, err, blockSize, isClosed, base, bufAddr, file, oDirect, cached,
          ops, pc, call, data, dataAddr, p, pAddr, nn, ret, sent, failed, entry, cfg>>

writerVars == <<buf, n, err, blockSize, isClosed, base, bufAddr>>
fileVars   == <<file, oDirect, cached, ops>>

NoStatx  == [err |-> "nil", mask |-> FALSE, memAlign |-> 0]
NoStatfs == [err |-> "nil", bsize |-> 0]
NoOut    == [err |-> "nil", blockSize |-> 0, capacity |-> 0, bufAddr |-> 0]
NoEntry  == [n |-> 0, err |-> "nil", buf |-> <<>>, closeCalled |-> FALSE, ioFailed |-> FALSE]

BlockSizes == {1, 2, 3}
Capacities(bs) == {bs, 2 * bs}

\* The state after &DirectIO{buf, f, blockSize, isClosed: false}, for a block
\* size bs, a capacity cap and make() returning address a; no writer is
\* produced when allocAlignedBuf fails.  desc says how f.Write answers:
\* "os.File" as (*os.File).Write does, "Writer" as its signature allows.
InitFor(desc) ==
    \E bs \in BlockSizes : \E cap \in Capacities(bs) : \E a \in 1 .. bs :
        LET r == allocAlignedBuf(bs, cap, a)
        IN  /\ blockSize = bs
            /\ base = a
            /\ bufAddr = r.addr
            /\ buf = [i \in 1 .. r.len |-> 0]
            /\ n = 0
            /\ err = "nil"
            /\ isClosed = FALSE
            /\ file = <<>>
            /\ oDirect = TRUE
            /\ cached = 0
            /\ ops = <<>>
            /\ pc = IF r.err = "nil" THEN "idle" ELSE "noWriter"
            /\ call = "none"
            /\ data = <<>>
            /\ dataAddr = 0
            /\ p = <<>>
            /\ pAddr = 0
            /\ nn = 0
            /\ ret = [n |-> 0, err |-> "nil"]
            /\ sent = 0
            /\ failed = FALSE
            /\ entry = NoEntry
            /\ cfg = [isDirect |-> TRUE, st |-> NoStatx, sf |-> NoStatfs, size |-> cap,
                      file |-> desc,
                      out |-> [err |-> r.err, blockSize |-> bs, capacity |-> cap,
                               bufAddr |-> r.addr]]

\* The writer on an *os.File, as NewSize builds it.
Init == InitFor("os.File")

\* A descriptor write of the call whose log is log reported an error.
WriteFailedIn(log) == \E i \in 1 .. Len(log) : log[i].op = "write" /\ log[i].n < log[i].len

\* The writer as a public call finds it; closeCalled: Close was called before,
\* ioFailed: a descriptor write failed inside an earlier Write call.
Entry ==
    [n |-> n, err |-> err, buf |-> buf,
     closeCalled |-> (entry.closeCalled \/ call = "Close"),
     ioFailed |-> (entry.ioFailed \/ (call = "Write" /\ WriteFailedIn(ops)))]

\* ------------------------------------------------------------------ Write
\* The bytes sent+1 .. sent+len: the next len bytes of the caller's stream.
Fresh(len) == [i \in 1 .. len |-> sent + i]

\* The bytes offered to Write over the life of the writer.
Total == IF cfg.file = "os.File" THEN MaxTotal ELSE MaxIfaceTotal

\* The addresses (modulo blockSize) tried for the argument of Write.
Addrs == {a \in {0, 1} : a < blockSize}

\* A slip in the check at the top of Write: only a failed writer is rejected.
WriteRejectsFailedOnly == isClosed /\ err # "nil"

\* The check at the top of Write.
WriteRejects == isClosed

\* Write(p) up to the loop: the closed check.
WriteCall ==
    /\ pc = "idle"
    /\ \E len \in 0 .. Total - sent : \E a \in Addrs :
        /\ call' = "Write"
        /\ ops' = <<>>
        /\ entry' = Entry
        /\ IF WriteRejects
           THEN /\ ret' = [n |-> 0, err |-> "the writer is closed"]
                /\ failed' = TRUE
                /\ UNCHANGED <<pc, data, dataAddr, p, pAddr, nn, sent>>
           ELSE /\ pc' = "loop"
                /\ data' = Fresh(len)
                /\ dataAddr' = a
                /\ p' = Fresh(len)
                /\ pAddr' = a
                /\ nn' = 0
                /\ sent' = sent + len
                /\ UNCHANGED <<ret, failed>>
    /\ UNCHANGED <<writerVars, file, oDirect, cached, cfg>>

\* A slip in the loop condition: an input that just fills the buffer is staged.
LoopCondStrict == Len(p) > Available(buf, n) /\ err = "nil"

\* The condition of Write's for loop.
LoopCond == Len(p) >= Available(buf, n) /\ err = "nil"

\* A slip in the zero-copy test: the alignment test inverted.
EmptyAndMisaligned == Buffered(n) = 0 /\ align(pAddr, Len(p), blockSize) # 0

\* The condition of the zero-copy branch inside the loop.
EmptyAndAligned == Buffered(n) = 0 /\ align(pAddr, Len(p), blockSize) = 0

\* What the descriptor holds after a write of bytes that reported k written.
FileAfter(bytes, k) == file \o SubSeq(bytes, 1, k)
CachedAdd(direct, c, k) == IF direct THEN c ELSE c + k
CachedAfter(k) == CachedAdd(oDirect, cached, k)

\* A slip at the end of a pass: p is not advanced.
AdvanceNone(k) ==
    /\ p' = p
    /\ pAddr' = pAddr

\* p = p[k:]
Advance(k) ==
    /\ p' = Slice(p, k, Len(p))
    /\ pAddr' = (pAddr + k) % blockSize

\* One pass of the loop, zero-copy branch: n, d.err = d.f.Write(p).
WriteDirect ==
    /\ pc = "loop" /\ LoopCond /\ EmptyAndAligned /\ Len(ops) < MaxPasses
    /\ Len(p) % blockSize = 0
    /\ \E r \in DescWrite(cfg.file, Len(p)) :
        /\ err' = r.err
        /\ file' = FileAfter(p, r.n)
        /\ cached' = CachedAfter(r.n)
        /\ ops' = Append(ops, OpWrite(Len(p), r, oDirect, "p", pAddr = 0))
        /\ nn' = nn + r.n
        /\ Advance(r.n)
    /\ UNCHANGED <<buf, n, blockSize, isClosed, base, bufAddr, oDirect, pc, call,
                   data, dataAddr, ret, sent, failed, entry, cfg>>

\* One pass of the loop, split branch: write p[:l], stage p[l:].
WriteSplit ==
    /\ pc = "loop" /\ LoopCond /\ EmptyAndAligned /\ Len(ops) < MaxPasses
    /\ Len(p) % blockSize # 0
    /\ LET l    == SplitLen(Len(p), blockSize)
           tail == Slice(p, l, Len(p))
           c    == CopyCount(buf, n, tail)
       IN  \E r \in DescWrite(cfg.file, l) :
            /\ err' = r.err
            /\ file' = FileAfter(Slice(p, 0, l), r.n)
            /\ cached' = CachedAfter(r.n)
            /\ ops' = Append(ops, OpWrite(l, r, oDirect, "p", pAddr = 0))
            /\ buf' = CopyInto(buf, n, tail)
            /\ n' = n + c
            /\ nn' = nn + (c + r.n)
            /\ Advance(c + r.n)
    /\ UNCHANGED <<blockSize, isClosed, base, bufAddr, oDirect, pc, call,
                   data, dataAddr, ret, sent, failed, entry, cfg>>

\* One pass of the loop, buffer branch: fill the buffer, flush it, and
\* return at once when flush fails.
WriteFill ==
    /\ pc = "loop" /\ LoopCond /\ ~EmptyAndAligned /\ Len(ops) < MaxPasses
    /\ LET c    == CopyCount(buf, n, p)
           b1   == CopyInto(buf, n, p)
           fill == n + c
       IN  \E r \in (IF fill = 0 THEN {[n |-> 0, err |-> "nil"]} ELSE DescWrite(cfg.file, fill)) :
            LET fl == flush(b1, fill, err, r)
            IN  /\ buf' = fl.buf
                /\ n' = fl.n
                /\ IF fl.wrote
                   THEN /\ file' = FileAfter(Slice(b1, 0, fill), fl.k)
                        /\ cached' = CachedAfter(fl.k)
                        /\ ops' = Append(ops, OpWrite(fill, r, oDirect, "buf",
                                                      bufAddr % blockSize = 0))
                   ELSE UNCHANGED <<file, cached, ops>>
                /\ IF fl.err # "nil"
                   THEN /\ ret' = [n |-> nn, err |-> fl.err]
                        /\ failed' = TRUE
                        /\ pc' = "idle"
                        /\ UNCHANGED <<p, pAddr, nn>>
                   ELSE /\ nn' = nn + c
                        /\ Advance(c)
                        /\ UNCHANGED <<ret, failed, pc>>
    /\ UNCHANGED <<err, blockSize, isClosed, base, bufAddr, oDirect, call,
                   data, dataAddr, sent, entry, cfg>>

\* A slip after the loop: the bytes staged last are left out of the count.
WriteReturnStale ==
    /\ pc = "loop" /\ ~LoopCond
    /\ pc' = "idle"
    /\ IF err # "nil"
       THEN /\ ret' = [n |-> nn, err |-> err]
            /\ failed' = TRUE
            /\ UNCHANGED <<buf, n, nn>>
       ELSE LET c == CopyCount(buf, n, p)
            IN  /\ buf' = CopyInto(buf, n, p)
                /\ n' = n + c
                /\ nn' = nn
                /\ ret' = [n |-> nn, err |-> "nil"]
                /\ UNCHANGED failed
    /\ UNCHANGED <<err, blockSize, isClosed, base, bufAddr, fileVars, call,
                   data, dataAddr, p, pAddr, sent, entry, cfg>>

\* After the loop: report the sticky error, or stage the rest and return.
WriteReturn ==
    /\ pc = "loop" /\ ~LoopCond
    /\ pc' = "idle"
    /\ IF err # "nil"
       THEN /\ ret' = [n |-> nn, err |-> err]
            /\ failed' = TRUE
            /\ UNCHANGED <<buf, n, nn>>
       ELSE LET c == CopyCount(buf, n, p)
            IN  /\ buf' = CopyInto(buf, n, p)
                /\ n' = n + c
                /\ nn' = nn + c
                /\ ret' = [n |-> nn + c, err |-> "nil"]
                /\ UNCHANGED failed
    /\ UNCHANGED <<err, blockSize, isClosed, base, bufAddr, fileVars, call,
                   data, dataAddr, p, pAddr, sent, entry, cfg>>

\* ------------------------------------------------------------------ Close
NoWrite == [n |-> 0, err |-> "nil"]

\* A slip in Close: the flag is set only when the drain succeeds.
ClosedOnlyOnSuccess(e) == e = "nil"

\* d.isClosed after Close got past its first check: line 251 sets it before
\* any I/O, so whatever error e the drain ends with.
ClosedAfterClose(e) == TRUE

\* A slip in Phase 1: the bytes written are not taken off d.n.
ClosePhase1KeepsFill(r1) ==
    LET alignedSize == AlignedSize(n, blockSize)
    IN  IF alignedSize > 0
        THEN [ran  |-> TRUE,
              err  |-> r1.err,
              file |-> FileAfter(Slice(buf, 0, alignedSize), r1.n),
              cached |-> CachedAfter(r1.n),
              ops  |-> <<OpWrite(alignedSize, r1, oDirect, "buf", bufAddr % blockSize = 0)>>,
              buf  |-> IF r1.err = "nil" THEN CopyInto(buf, 0, Slice(buf, r1.n, n)) ELSE buf,
              n    |-> n]
        ELSE [ran |-> FALSE, err |-> "nil", file |-> file, cached |-> cached,
              ops |-> <<>>, buf |-> buf, n |-> n]

\* A slip in Phase 1: the tail is not shifted to the start of the buffer.
ClosePhase1NoShift(r1) ==
    LET alignedSize == AlignedSize(n, blockSize)
    IN  IF alignedSize > 0
        THEN [ran  |-> TRUE,
              err  |-> r1.err,
              file |-> FileAfter(Slice(buf, 0, alignedSize), r1.n),
              cached |-> CachedAfter(r1.n),
              ops  |-> <<OpWrite(alignedSize, r1, oDirect, "buf", bufAddr % blockSize = 0)>>,
              buf  |-> buf,
              n    |-> IF r1.err = "nil" THEN n - r1.n ELSE n]
        ELSE [ran |-> FALSE, err |-> "nil", file |-> file, cached |-> cached,
              ops |-> <<>>, buf |-> buf, n |-> n]

\* Phase 1 of Close: the aligned bulk, written while O_DIRECT is still set.
\* r1 is what d.f.Write(d.buf[:alignedSize]) returns.
ClosePhase1(r1) ==
    LET alignedSize == AlignedSize(n, blockSize)
    IN  IF alignedSize > 0
        THEN [ran  |-> TRUE,
              err  |-> r1.err,
              file |-> FileAfter(Slice(buf, 0, alignedSize), r1.n),
              cached |-> CachedAfter(r1.n),
              ops  |-> <<OpWrite(alignedSize, r1, oDirect, "buf", bufAddr % blockSize = 0)>>,
              buf  |-> IF r1.err = "nil" THEN CopyInto(buf, 0, Slice(buf, r1.n, n)) ELSE buf,
              n    |-> IF r1.err = "nil" THEN n - r1.n ELSE n]
        ELSE [ran |-> FALSE, err |-> "nil", file |-> file, cached |-> cached,
              ops |-> <<>>, buf |-> buf, n |-> n]

\* A slip at the end of Phase 2: the eviction hint goes out before the sync.
HintThenSync(direct) == <<OpOther("fadvise", direct), OpOther("sync", direct)>>

\* The end of Phase 2 after a tail write without error: d.f.Sync(), then
\* unix.Fadvise(fd, 0, 0, FADV_DONTNEED).
SyncThenHint(direct) == <<OpOther("sync", direct), OpOther("fadvise", direct)>>

\* A slip in Phase 2: O_DIRECT is set again only after a tail write without
\* error.
ClosePhase2ReenableOnSuccess(s1, okOff, r2, okOn) ==
    IF s1.n > 0
    THEN IF ~okOff
         THEN [err |-> "fcntl", file |-> s1.file, cached |-> s1.cached,
               direct |-> setDirectIO(oDirect, FALSE, FALSE),
               ops |-> Append(s1.ops, OpToggle(FALSE, FALSE, oDirect)), n |-> s1.n]
         ELSE LET d1   == setDirectIO(oDirect, FALSE, TRUE)
                  d2   == setDirectIO(d1, TRUE, okOn)
                  ops1 == s1.ops \o <<OpToggle(FALSE, TRUE, d1),
                                      OpWrite(s1.n, r2, d1, "buf", bufAddr % blockSize = 0)>>
              IN  IF r2.err # "nil"
                  THEN [err |-> r2.err, file |-> s1.file \o SubSeq(s1.buf, 1, r2.n),
                        cached |-> CachedAdd(d1, s1.cached, r2.n), direct |-> d1,
                        ops |-> ops1, n |-> s1.n]
                  ELSE [err |-> "nil", file |-> s1.file \o SubSeq(s1.buf, 1, r2.n),
                        cached |-> CachedAdd(d1, s1.cached, r2.n), direct |-> d2,
                        ops |-> ops1 \o <<OpToggle(TRUE, okOn, d2)>> \o SyncThenHint(d2),
                        n |-> s1.n - r2.n]
    ELSE [err |-> "nil", file |-> s1.file, cached |-> s1.cached, direct |-> oDirect,
          ops |-> s1.ops, n |-> s1.n]

\* Phase 2 of Close, from the state s1 Phase 1 left: the tail, written with
\* O_DIRECT off.  okOff and okOn say whether the two setDirectIO calls
\* succeed, r2 is what d.f.Write(d.buf[:d.n]) returns.
ClosePhase2(s1, okOff, r2, okOn) ==
    IF s1.n > 0
    THEN IF ~okOff
         THEN [err |-> "fcntl", file |-> s1.file, cached |-> s1.cached,
               direct |-> setDirectIO(oDirect, FALSE, FALSE),
               ops |-> Append(s1.ops, OpToggle(FALSE, FALSE, oDirect)), n |-> s1.n]
         ELSE LET d1   == setDirectIO(oDirect, FALSE, TRUE)
                  d2   == setDirectIO(d1, TRUE, okOn)
                  ops2 == s1.ops \o <<OpToggle(FALSE, TRUE, d1),
                                      OpWrite(s1.n, r2, d1, "buf", bufAddr % blockSize = 0),
                                      OpToggle(TRUE, okOn, d2)>>
              IN  IF r2.err # "nil"
                  THEN [err |-> r2.err, file |-> s1.file \o SubSeq(s1.buf, 1, r2.n),
                        cached |-> CachedAdd(d1, s1.cached, r2.n), direct |-> d2,
                        ops |-> ops2, n |-> s1.n]
                  ELSE [err |-> "nil", file |-> s1.file \o SubSeq(s1.buf, 1, r2.n),
                        cached |-> CachedAdd(d1, s1.cached, r2.n), direct |-> d2,
                        ops |-> ops2 \o SyncThenHint(d2),
                        n |-> s1.n - r2.n]
    ELSE [err |-> "nil", file |-> s1.file, cached |-> s1.cached, direct |-> oDirect,
          ops |-> s1.ops, n |-> s1.n]

\* Close(): the whole call.
Close ==
    /\ pc = "idle"
    /\ call' = "Close"
    /\ entry' = Entry
    /\ IF isClosed
       THEN /\ ret' = [n |-> 0, err |-> "the writer is already closed"]
            /\ ops' = <<>>
            /\ failed' = TRUE
            /\ UNCHANGED <<buf, n, isClosed, file, oDirect, cached>>
       ELSE IF n = 0
            THEN /\ isClosed' = ClosedAfterClose("nil")
                 /\ ret' = [n |-> 0, err |-> "nil"]
                 /\ ops' = <<>>
                 /\ UNCHANGED <<buf, n, file, oDirect, cached, failed>>
            ELSE \E r1 \in (IF AlignedSize(n, blockSize) > 0
                            THEN DescWrite(cfg.file, AlignedSize(n, blockSize))
                            ELSE {NoWrite}) :
                 LET s1 == ClosePhase1(r1)
                 IN  IF s1.err # "nil"
                     THEN /\ isClosed' = ClosedAfterClose(s1.err)
                          /\ ret' = [n |-> 0, err |-> s1.err]
                          /\ failed' = TRUE
                          /\ buf' = s1.buf
                          /\ n' = s1.n
                          /\ file' = s1.file
                          /\ cached' = s1.cached
                          /\ ops' = s1.ops
                          /\ UNCHANGED oDirect
                     ELSE \E okOff \in (IF s1.n > 0 THEN BOOLEAN ELSE {TRUE}) :
                          \E okOn \in (IF s1.n > 0 /\ okOff THEN BOOLEAN ELSE {TRUE}) :
                          \E r2 \in (IF s1.n > 0 /\ okOff THEN DescWrite(cfg.file, s1.n)
                                     ELSE {NoWrite}) :
                          LET s2 == ClosePhase2(s1, okOff, r2, okOn)
                          IN  /\ isClosed' = ClosedAfterClose(s2.err)
                              /\ ret' = [n |-> 0, err |-> s2.err]
                              /\ failed' = (failed \/ s2.err # "nil")
                              /\ buf' = s1.buf
                              /\ n' = s2.n
                              /\ file' = s2.file
                              /\ cached' = s2.cached
                              /\ oDirect' = s2.direct
                              /\ ops' = s2.ops
    /\ UNCHANGED <<err, blockSize, base, bufAddr, pc, data, dataAddr, p, pAddr, nn,
                   sent, cfg>>

Next ==
    \/ WriteCall
    \/ WriteDirect
    \/ WriteSplit
    \/ WriteFill
    \/ WriteReturn
    \/ Close

Spec == Init /\ [][Next]_vars

\* ----------------------------------------------------------- construction
\* NewSize as a function of what the system reports: the inputs are drawn in
\* InitNew, NewSizeCall applies NewSize to them.
StatxOutcomes ==
    {[err |-> e, mask |-> m, memAlign |-> a] :
        e \in {"nil", "ENOSYS", "EOPNOTSUPP", "EIO"}, m \in BOOLEAN, a \in {0, 512, 4096}}
StatfsOutcomes ==
    {[err |-> e, bsize |-> b] :
        e \in {"nil", "EIO"}, b \in {0, 1, 511, 512, 1024, 4095, 4096, 6000, 8192, 65536}}
Sizes == {-1, 0, 1, 4096, 16383, 16384, 16385, 20000, 65536}

InitNew ==
    /\ cfg \in [isDirect : BOOLEAN, st : StatxOutcomes, sf : StatfsOutcomes,
                size : Sizes, file : {"os.File"}, out : {NoOut}]
    /\ base \in {4096, 4097, 8191}
    /\ pc = "new"
    /\ blockSize = 0
    /\ bufAddr = 0
    /\ buf = <<>>
    /\ n = 0
    /\ err = "nil"
    /\ isClosed = FALSE
    /\ file = <<>>
    /\ oDirect = cfg.isDirect
    /\ cached = 0
    /\ ops = <<>>
    /\ call = "none"
    /\ data = <<>>
    /\ dataAddr = 0
    /\ p = <<>>
    /\ pAddr = 0
    /\ nn = 0
    /\ ret = [n |-> 0, err |-> "nil"]
    /\ sent = 0
    /\ failed = FALSE
    /\ entry = NoEntry

\* NewSize(f, size): the writer's block size and buffer address; the buffer's
\* bytes are left out here, cfg.out.capacity is their number.
NewSizeCall ==
    /\ pc = "new"
    /\ LET out == NewSize(cfg.isDirect, cfg.st, cfg.sf, cfg.size, base)
       IN  /\ cfg' = [cfg EXCEPT !.out = out]
           /\ pc' = IF out.err = "nil" THEN "built" ELSE "noWriter"
           /\ blockSize' = out.blockSize
           /\ bufAddr' = out.bufAddr
    /\ UNCHANGED <<buf, n, err, isClosed, base, fileVars, call, data, dataAddr, p,
                   pAddr, nn, ret, sent, failed, entry>>

NextNew == NewSizeCall

SpecNew == InitNew /\ [][NextNew]_vars

\* ------------------------------------------------- the writer on any Writer
\* The same writer when f.Write may answer anything its signature allows,
\* a short or zero-byte write without an error included.
InitIface == InitFor("Writer")

SpecIface == InitIface /\ [][Next]_vars

\* ------------------------------------------------------------ flush alone
\* flush() on a buffer of cap bytes of which the first F are staged, with
\* and without the sticky error set.
InitFlush ==
    \E cap \in 1 .. MaxFlushCap : \E F \in 0 .. cap : \E off \in {0, 1} :
    \E sticky \in {"nil", "EIO"} :
        /\ buf = [i \in 1 .. cap |-> off + i]
        /\ n = F
        /\ err = sticky
        /\ blockSize = 1
        /\ isClosed = FALSE
        /\ base = 0
        /\ bufAddr = 0
        /\ file = <<>>
        /\ oDirect = TRUE
        /\ cached = 0
        /\ ops = <<>>
        /\ pc = "flush"
        /\ call = "none"
        /\ data = <<>>
        /\ dataAddr = 0
        /\ p = <<>>
        /\ pAddr = 0
        /\ nn = 0
        /\ ret = [n |-> 0, err |-> "nil"]
        /\ sent = 0
        /\ failed = FALSE
        /\ entry = NoEntry
        /\ cfg = [isDirect |-> TRUE, st |-> NoStatx, sf |-> NoStatfs, size |-> cap,
                  file |-> "Writer",
                  out |-> [err |-> "nil", blockSize |-> 1, capacity |-> cap, bufAddr |-> 0]]

\* One call of flush(); ret.err is what it returns.
FlushCall ==
    /\ pc = "flush"
    /\ \E r \in (IF err = "nil" /\ n > 0 THEN AllWrites(n) ELSE {NoWrite}) :
        LET fl == flush(buf, n, err, r)
        IN  /\ buf' = fl.buf
            /\ n' = fl.n
            /\ ret' = [n |-> 0, err |-> fl.err]
            /\ failed' = (fl.err # "nil")
            /\ IF fl.wrote
               THEN /\ file' = FileAfter(Slice(buf, 0, n), fl.k)
                    /\ cached' = CachedAfter(fl.k)
                    /\ ops' = <<OpWrite(n, r, oDirect, "buf", TRUE)>>
               ELSE UNCHANGED <<file, cached, ops>>
    /\ pc' = "flushed"
    /\ call' = "flush"
    /\ entry' = Entry
    /\ UNCHANGED <<err, blockSize, isClosed, base, bufAddr, oDirect, data, dataAddr,
                   p, pAddr, nn, sent, cfg>>

NextFlush == FlushCall

SpecFlush == InitFlush /\ [][NextFlush]_vars

\* ----------------------------------------------------------------- claims
Returned(name) == pc = "idle" /\ call = name
Staged  == {buf[i] : i \in 1 .. n}
Written == {file[i] : i \in 1 .. Len(file)}

\* C1: after Write calls and one Close that all returned no error, the bytes
\* the descriptor reported as written, in the order of the writes, are exactly
\* the bytes offered, in order: nothing is missing, duplicated or reordered.
C1_RoundTrip ==
    (pc = "idle" /\ isClosed /\ ~failed) => file = [i \in 1 .. sent |-> i]

\* A Close that ran both phases and ended an error-free run of MaxTotal bytes.
C1_Witness ==
    /\ Returned("Close") /\ isClosed /\ ~failed
    /\ sent = MaxTotal /\ Len(file) = MaxTotal
    /\ Len(ops) = 6 /\ cached > 0

\* C2: fewer than blockSize bytes are ever written while O_DIRECT is off, and
\* every write Close issues with O_DIRECT off is shorter than a block.
C2_BoundedTail ==
    /\ cached < blockSize
    /\ \A i \in 1 .. Len(ops) :
        (ops[i].op = "write" /\ ~ops[i].direct) => ops[i].len < blockSize

\* A Close whose Phase 2 wrote the largest tail, after a short Phase 1 write
\* earlier in the writer's life.
C2_Witness ==
    /\ Returned("Close") /\ Len(ops) = 6
    /\ blockSize > 1 /\ cached = blockSize - 1
    /\ entry.ioFailed

\* C3: a descriptor write that fails during a Write call is latched in d.err,
\* and every later Write returns an error at once without a descriptor write.
C3_PoisonedWriter ==
    /\ (Returned("Write") /\ WriteFailedIn(ops)) => err # "nil"
    /\ (call = "Write" /\ entry.ioFailed) =>
            (ops = <<>> /\ (pc = "idle" => ret.err # "nil"))

\* C4: when Write(data) returns (k, err) with err set, the bytes of data the
\* writer has written or staged are exactly data[0:k].
C4_PartialCount ==
    (Returned("Write") /\ ~entry.closeCalled /\ ret.err # "nil") =>
        \A i \in 1 .. Len(data) : (data[i] \in Staged \cup Written) <=> (i <= ret.n)

\* The case of the zero-copy claim: an open writer with an empty buffer and
\* no sticky error was given a block-aligned input of a positive multiple of
\* blockSize bytes, and Write has returned.
ZeroCopyCase ==
    /\ Returned("Write") /\ ~entry.closeCalled
    /\ entry.n = 0 /\ entry.err = "nil"
    /\ dataAddr = 0 /\ Len(data) > 0 /\ Len(data) % blockSize = 0

\* Write handed the whole input to the descriptor from the caller's memory and
\* staged nothing.
ZeroCopyDone ==
    /\ Len(ops) >= 1
    /\ ops[1].op = "write" /\ ops[1].len = Len(data) /\ ops[1].src = "p"
    /\ ops[1].direct /\ ops[1].aligned
    /\ n = 0
    /\ buf = entry.buf

\* C5 as stated: every aligned input of a positive multiple of blockSize
\* bytes, shorter than the buffer or not, goes to the descriptor directly.
C5_ZeroCopyAnyMultiple == ZeroCopyCase => ZeroCopyDone

\* C5 as amended: an aligned input of a positive multiple of blockSize bytes
\* that is at least as long as the buffer's capacity goes to the descriptor
\* directly in the same call, and FillLength stays 0.
C5_ZeroCopy == (ZeroCopyCase /\ Len(data) >= Len(buf)) => ZeroCopyDone

\* Zero-copy writes of more than the capacity, fully written.
C5_Witness ==
    /\ ZeroCopyCase /\ Len(data) > Len(buf) /\ ret.err = "nil"
    /\ ZeroCopyDone /\ ops[1].n = Len(data)

\* C6: once Close has been called the writer is closed, however that call
\* ended, and a later Close returns the already-closed error and issues no
\* descriptor operation and changes nothing.
C6_CloseIdempotent ==
    /\ (call = "Close" \/ entry.closeCalled) => isClosed
    /\ (Returned("Close") /\ entry.closeCalled) =>
        /\ ret.err = "the writer is already closed"
        /\ ops = <<>>
        /\ n = entry.n /\ buf = entry.buf /\ err = entry.err

\* A second Close after a first one that failed with bytes still staged.
C6_Witness ==
    /\ Returned("Close") /\ entry.closeCalled
    /\ ret.err = "the writer is already closed"
    /\ n > 0 /\ ~oDirect

\* C7: a Write after Close was called returns (0, closed-writer error), issues
\* no descriptor operation and leaves FillLength and the buffer as they were.
C7_ClosedRejectsWrite ==
    (call = "Write" /\ entry.closeCalled) =>
        /\ pc = "idle"
        /\ ret = [n |-> 0, err |-> "the writer is closed"]
        /\ ops = <<>>
        /\ n = entry.n /\ buf = entry.buf

\* A Write rejected after a Close that failed and left bytes staged.
C7_Witness ==
    /\ Returned("Write") /\ entry.closeCalled
    /\ ret.err = "the writer is closed" /\ n > 0

\* C8: a Write that returns a nil error returns len(data); a count below
\* len(data) comes with a non-nil error.
C8_WriteCount ==
    (Returned("Write") /\ ~entry.closeCalled) =>
        /\ ret.err = "nil" => ret.n = Len(data)
        /\ ret.n < Len(data) => ret.err # "nil"

\* A successful Write that went through the loop more than once and staged
\* its last bytes.
C8_Witness ==
    /\ Returned("Write") /\ ~entry.closeCalled /\ ret.err = "nil"
    /\ ret.n = Len(data) /\ Len(ops) >= 2 /\ n > 0

\* C9: the allocator succeeds and returns exactly capacity bytes inside the
\* over-allocated region, starting at a multiple of blockSize; the writer
\* keeps that region in every state.
C9_AlignedBuffer ==
    /\ pc # "noWriter" /\ cfg.out.err = "nil"
    /\ Len(buf) = cfg.size
    /\ bufAddr % blockSize = 0
    /\ base <= bufAddr
    /\ bufAddr + Len(buf) <= base + (cfg.size + blockSize)

\* A writer built on a misaligned allocation, after writes and Close.
C9_Witness ==
    /\ base % blockSize # 0 /\ bufAddr > base
    /\ isClosed /\ Len(file) > Len(buf)

\* C10: when the kernel's Direct-I/O alignment query succeeds with a nonzero
\* value, that value is the writer's block size; the clamped filesystem block
\* size is used only when the query is unsupported or reports zero.
C10_KernelAlignmentFirst ==
    (pc = "built" /\ DIOMemAlign(cfg.st).err = "nil") =>
        blockSize = DIOMemAlign(cfg.st).align

\* C11: with the filesystem block size b taken from statfs, the writer's block
\* size is 4096 when b < 4096 and b itself when b >= 4096; it is never below
\* 4096, and b = 512 with an unsupported kernel query gives 4096.
C11_FallbackClamp ==
    (pc = "built") =>
        /\ blockSize >= 4096
        /\ (cfg.sf.err = "nil" /\ cfg.sf.bsize < 4096) => blockSize = 4096
        /\ (cfg.sf.err = "nil" /\ cfg.sf.bsize >= 4096) => blockSize = cfg.sf.bsize

\* The scenario of the claim: statx unsupported, statfs reports 512.
C11_Witness ==
    /\ pc = "built" /\ blockSize = 4096
    /\ cfg.sf = [err |-> "nil", bsize |-> 512]
    /\ DIOMemAlign(cfg.st).err = "ErrFSNoDIOSupport"

\* C12: every write issued while O_DIRECT is set has a length that is a
\* positive multiple of blockSize and a source at a block-aligned address.
C12_DirectWritesAligned ==
    \A i \in 1 .. Len(ops) :
        (ops[i].op = "write" /\ ops[i].direct) =>
            /\ ops[i].len > 0
            /\ ops[i].len % blockSize = 0
            /\ ops[i].aligned

\* The names of the operations of a log, and the log without the Phase 1
\* write Close starts with when the staged bytes hold a whole block.
OpNames(log) == [i \in 1 .. Len(log) |-> log[i].op]
AfterPhase1(log) ==
    IF Len(log) > 0 /\ log[1].op = "write" THEN SubSeq(log, 2, Len(log)) ELSE log
ToggleOk(log) ==
    \A i \in 1 .. Len(log) : log[i].op \in {"enable", "disable"} => log[i].ok

\* C13: O_DIRECT is switched off only by Close, after its Phase 1; a switch-off
\* that succeeded is followed by the tail write and then by a switch-on,
\* whatever the tail write reported; and a step in which no setDirectIO call
\* failed leaves O_DIRECT set.
C13_GuaranteedReenable ==
    /\ [](\A i \in 1 .. Len(ops) :
            /\ (ops[i].op = "disable") =>
                /\ call = "Close"
                /\ i = Len(ops) - Len(AfterPhase1(ops)) + 1
            /\ (ops[i].op = "disable" /\ ops[i].ok) =>
                /\ i + 2 <= Len(ops)
                /\ ops[i + 1].op = "write"
                /\ ops[i + 2].op = "enable")
    /\ [][(oDirect /\ ToggleOk(ops')) => oDirect']_vars

C13_Witness ==
    /\ Returned("Close") /\ oDirect
    /\ \E i \in 1 .. Len(ops) :
        /\ ops[i].op = "disable" /\ ops[i].ok
        /\ ops[i + 1].op = "write" /\ ops[i + 1].n < ops[i + 1].len
        /\ ops[i + 2].op = "enable" /\ ops[i + 2].ok

\* C14: after its Phase 1 write, Close issues nothing, or a failed switch-off,
\* or switch-off, tail write, switch-on, followed by sync and then the
\* eviction hint exactly when the tail write reported no error.
C14_Phase2Order ==
    (call = "Close") =>
        LET t == AfterPhase1(ops)
        IN  \/ t = <<>>
            \/ OpNames(t) = <<"disable">> /\ ~t[1].ok
            \/ OpNames(t) = <<"disable", "write", "enable">> /\ ~t[2].ok
            \/ OpNames(t) = <<"disable", "write", "enable", "sync", "fadvise">> /\ t[2].ok

C14_Witness ==
    /\ Returned("Close")
    /\ OpNames(ops) = <<"write", "disable", "write", "enable", "sync", "fadvise">>

\* C15: a call that finds the sticky error set leaves it as it is and issues
\* no descriptor operation.
C15_StickyShortCircuits ==
    (call \in {"Write", "Close"} /\ entry.err # "nil") =>
        /\ err = entry.err
        /\ ops = <<>>

\* The case of the split path: an open writer with an empty buffer and no
\* sticky error was given a block-aligned input at least as long as the
\* capacity and not a multiple of blockSize, and Write has returned.
SplitCase ==
    /\ Returned("Write") /\ ~entry.closeCalled
    /\ entry.n = 0 /\ entry.err = "nil"
    /\ dataAddr = 0 /\ Len(data) >= Len(buf) /\ Len(data) % blockSize # 0

\* C16: in that case Write issues one direct write of the first
\* L - (L mod blockSize) bytes and, when it is fully written, stages the
\* remaining L mod blockSize bytes and returns (L, nil).
C16_SplitPath ==
    SplitCase =>
        LET L == Len(data)
            l == L - (L % blockSize)
        IN  /\ Len(ops) >= 1
            /\ ops[1].op = "write" /\ ops[1].src = "p" /\ ops[1].len = l
            /\ (ops[1].n = ops[1].len) =>
                /\ Len(ops) = 1
                /\ n = L % blockSize
                /\ SubSeq(buf, 1, n) = SubSeq(data, l + 1, L)
                /\ ret = [n |-> L, err |-> "nil"]

\* C18: Close on an empty buffer returns nil with no descriptor operation; on
\* a buffer holding whole blocks only, once the Phase 1 write was written in
\* full, it issues nothing else: no switch-off, no sync, no eviction hint.
C18_Phase2OnlyForTail ==
    (Returned("Close") /\ ~entry.closeCalled) =>
        /\ (entry.n = 0) => (ret.err = "nil" /\ ops = <<>>)
        /\ (/\ entry.n > 0 /\ entry.n % blockSize = 0
            /\ Len(ops) >= 1 /\ ops[1].n = ops[1].len) =>
                /\ ops[1].op = "write"
                /\ \A i \in 2 .. Len(ops) : ops[i].op \notin {"disable", "enable", "sync", "fadvise", "write"}

C18_Witness ==
    /\ Returned("Close") /\ ~entry.closeCalled
    /\ blockSize > 1 /\ entry.n = blockSize
    /\ Len(ops) = 1 /\ ops[1].op = "write" /\ ops[1].n = ops[1].len /\ ops[1].direct

\* Lines 119-127 of NewSize leave a capacity that is a multiple of the block
\* size, for every size asked for and every block size GetBestAlignment gives.
CapacityRounded ==
    \A sz \in Sizes : \A sf \in StatfsOutcomes :
        NewSizeCapacity(sz, GetBestAlignment(sf)) % GetBestAlignment(sf) = 0

\* C19: d.n stays within 0 .. capacity, Available() + Buffered() is the
\* capacity, the capacity is the multiple of blockSize fixed at construction,
\* a Write that returns nil leaves room in the buffer, and the staged bytes
\* are buf[0:d.n]: with what the descriptor took before them and the input
\* not yet consumed after them they are the bytes offered, in order.
C19_FillInvariant ==
    (pc \in {"idle", "loop"}) =>
        /\ 0 <= n /\ n <= Len(buf)
        /\ Available(buf, n) + Buffered(n) = Len(buf)
        /\ Len(buf) = cfg.out.capacity
        /\ Len(buf) % blockSize = 0
        /\ CapacityRounded
        /\ (Returned("Write") /\ ret.err = "nil") => n < Len(buf)
        /\ (~failed /\ err = "nil") =>
            file \o SubSeq(buf, 1, n) \o (IF pc = "loop" THEN p ELSE <<>>)
                = [i \in 1 .. sent |-> i]

C19_Witness ==
    /\ Returned("Write") /\ ret.err = "nil"
    /\ entry.n > 0 /\ Len(ops) > 0 /\ n = Len(buf) - 1 /\ n > 0 /\ file # <<>>

\* C17: when flush writes buf[0:F] and the descriptor reports k < F bytes,
\* flush returns an error (io.ErrShortWrite when the descriptor reported
\* none), d.n is F - k and buf[0:F-k] is the old buf[k:F]; when it reports
\* all F bytes and no error, d.n is 0 and flush returns nil.
C17_FlushRecovery ==
    (pc = "flushed" /\ Len(ops) = 1) =>
        LET F == entry.n
            k == ops[1].n
        IN  /\ ops[1].len = F
            /\ (k < F) =>
                /\ ret.err # "nil"
                /\ ops[1].ok => ret.err = "ErrShortWrite"
                /\ n = F - k
                /\ SubSeq(buf, 1, F - k) = SubSeq(entry.buf, k + 1, F)
            /\ (k = F /\ ops[1].ok) => (n = 0 /\ ret.err = "nil")

C17_Witness ==
    /\ pc = "flushed" /\ Len(ops) = 1 /\ ops[1].ok
    /\ ops[1].n > 0 /\ n >= 2 /\ ret.err = "ErrShortWrite"
    /\ SubSeq(buf, 1, n) # SubSeq(entry.buf, 1, n)

\* What a pass of Write's loop must make smaller for the loop to end: the
\* input left, and before that a buffer an earlier failed flush left full.
Variant ==
    IF err # "nil" THEN 0
    ELSE 1 + 2 * Len(p) + (IF Available(buf, n) = 0 THEN 1 ELSE 0)
LastOp == ops[Len(ops)]

====
